---------------------------- MODULE Spec2Model ----------------------------
(***************************************************************************)
(* A model of main.py, the document-processor backend: the regex           *)
(* derivation of generate_regex_from_sample, the handlers handle_tab1,     *)
(* handle_tab4 and handle_tab5, process_name_line_s1, and the two API      *)
(* endpoints.                                                              *)
(*                                                                         *)
(* Text is a sequence of characters.  The characters are representatives   *)
(* of the classes the program's regular expressions tell apart:            *)
(*   "GA" "NA"   Hangul syllables (U+AC00 GA, U+B098 NA)               *)
(*   "a" "b"     Latin letters        "1" "2" "3" "0"  digits              *)
(*   " " "\n"    whitespace (the line break is the one character the       *)
(*               regex '.' does not match)                                 *)
(*   "." "-" "(" ","  "+" "*"   punctuation                                *)
(*   "EA"        a Latin-extended letter (U+00C9)                          *)
(***************************************************************************)
EXTENDS Integers, Sequences, FiniteSets, TLC

VARIABLES pc, request, response, previous, page_range_iterator, scanned, results

vars == <<pc, request, response, previous, page_range_iterator, scanned, results>>

---------------------------------------------------------------------------
(* Character classes of the regular expressions in main.py *)

Hangul == {"GA", "NA"}

Latin == {"a", "b"}

Digits == {"0", "1", "2", "3"}

Space == {" ", "\n"}

LatinExt == {"EA"}

Punct == {".", "-", "(", ",", "+", "*"}

Chars == Hangul \cup Latin \cup Digits \cup Space \cup LatinExt \cup Punct

\* the regex '.' (no DOTALL flag): every character but the line break
Dot == Chars \ {"\n"}

\* [^\uAC00-\uD7A3a-zA-Z0-9\s]
DelimClass == Chars \ (Hangul \cup Latin \cup Digits \cup Space)

\* group 1's class with the Hangul range left out
Part1ClassNoHangul == Latin \cup Digits \cup Space \cup {"."}

\* [\uAC00-\uD7A3A-Za-z0-9\s.]
Part1Class == Hangul \cup Latin \cup Digits \cup Space \cup {"."}

\* [A-Za-z0-9\s.\-()\u00C0-\u017F\u4E00-\u9FFF]
SingleTermClass == Latin \cup Digits \cup Space \cup {".", "-", "("} \cup LatinExt

\* {1,20}: the ceiling of capture group 1
Part1Max == 20

\* Unicode code points, the order Python compares strings by
Ord(c) ==
  CASE c = "\n" -> 10 [] c = " " -> 32 [] c = "(" -> 40 [] c = "*" -> 42
    [] c = "+" -> 43 [] c = "," -> 44 [] c = "-" -> 45 [] c = "." -> 46
    [] c = "0" -> 48 [] c = "1" -> 49 [] c = "2" -> 50 [] c = "3" -> 51
    [] c = "a" -> 97 [] c = "b" -> 98 [] c = "EA" -> 201
    [] c = "GA" -> 44032 [] c = "NA" -> 45208

---------------------------------------------------------------------------
(* String helpers: str.strip, str.split, str.join, str.lstrip, slicing *)

Min(a, b) == IF a < b THEN a ELSE b

Slice(s, i, j) == IF i > j THEN << >> ELSE SubSeq(s, i, j)

\* the length of the longest run of characters of class C that starts at s[i]
RECURSIVE RunLen(_, _, _)
RunLen(s, i, C) ==
  IF i <= Len(s) /\ s[i] \in C THEN 1 + RunLen(s, i + 1, C) ELSE 0

\* the length of the longest run of characters of class C that ends at s[i]
RECURSIVE RunLenBack(_, _, _)
RunLenBack(s, i, C) ==
  IF i >= 1 /\ s[i] \in C THEN 1 + RunLenBack(s, i - 1, C) ELSE 0

LStrip(s, C) == Slice(s, RunLen(s, 1, C) + 1, Len(s))

RStrip(s, C) == Slice(s, 1, Len(s) - RunLenBack(s, Len(s), C))

\* str.strip(): leading and trailing whitespace removed
Strip(s) == RStrip(LStrip(s, Space), Space)

\* str.split(): the maximal runs of non-whitespace characters
RECURSIVE SplitFrom(_, _)
SplitFrom(s, i) ==
  LET j == i + RunLen(s, i, Space)
      k == RunLen(s, j, Chars \ Space)
  IN IF j > Len(s) THEN << >>
     ELSE <<Slice(s, j, j + k - 1)>> \o SplitFrom(s, j + k)

Split(s) == SplitFrom(s, 1)

\* sep.join(parts)
RECURSIVE Join(_, _)
Join(parts, sep) ==
  IF Len(parts) = 0 THEN << >>
  ELSE IF Len(parts) = 1 THEN parts[1]
  ELSE parts[1] \o sep \o Join(Tail(parts), sep)

\* "".join(text.split()): all whitespace removed
Normalize(s) == Join(Split(s), << >>)

\* needle in haystack
IsSubstring(needle, hay) ==
  \E i \in 0..(Len(hay) - Len(needle)) :
     \A k \in 1..Len(needle) : hay[i + k] = needle[k]

\* all strings over alphabet A of length n, and of length lo..hi
Strs(A, n) == [1..n -> A]

StrsUpTo(A, lo, hi) == UNION {Strs(A, n) : n \in lo..hi}

---------------------------------------------------------------------------
(* generate_regex_from_sample: the parse of the sample.  The regex engine  *)
(* backtracks in a fixed order: a greedy \s* tries its longest run first,  *)
(* a lazy .+? or .*? its shortest; the first parse that reaches the end    *)
(* of the pattern is the match.                                            *)

NoParse == [ok |-> FALSE, g1 |-> << >>, delimiter |-> "", g3 |-> << >>]

\* group 3 closed by any character of the delimiter class, not by the
\* backreference \2
RECURSIVE TryGroup3AnyDelimiter(_, _, _, _)
TryGroup3AnyDelimiter(s, p0, e2, e3) ==
  IF e3 + 1 <= Len(s) /\ s[e3 + 1] \in DelimClass
        /\ RunLen(s, e3 + 2, Space) = Len(s) - (e3 + 1)
  THEN [ok |-> TRUE, g1 |-> << >>, delimiter |-> s[e2 + 1],
        g3 |-> Slice(s, e2 + 2, e3)]
  ELSE IF e3 + 1 <= Len(s) /\ s[e3 + 1] \in Dot
       THEN TryGroup3AnyDelimiter(s, p0, e2, e3 + 1)
       ELSE NoParse

\* (.*?)\2\s*$ : group 3 is s[e2+2..e3], lazily extended
RECURSIVE TryGroup3(_, _, _, _)
TryGroup3(s, p0, e2, e3) ==
  IF e3 + 1 <= Len(s) /\ s[e3 + 1] = s[e2 + 1]
        /\ RunLen(s, e3 + 2, Space) = Len(s) - (e3 + 1)
  THEN [ok |-> TRUE, g1 |-> << >>, delimiter |-> s[e2 + 1],
        g3 |-> Slice(s, e2 + 2, e3)]
  ELSE IF e3 + 1 <= Len(s) /\ s[e3 + 1] \in Dot
       THEN TryGroup3(s, p0, e2, e3 + 1)
       ELSE NoParse

\* \s*([^\uAC00-\uD7A3a-zA-Z0-9\s]) : the whitespace is s[e1+1..e2], greedily shortened
RECURSIVE TryDelimiter(_, _, _, _)
TryDelimiter(s, p0, e1, e2) ==
  LET r == IF e2 + 1 <= Len(s) /\ s[e2 + 1] \in DelimClass
           THEN TryGroup3(s, p0, e2, e2 + 1)
           ELSE NoParse
  IN IF r.ok THEN [r EXCEPT !.g1 = Slice(s, p0 + 1, e1)]
     ELSE IF e2 > e1 THEN TryDelimiter(s, p0, e1, e2 - 1)
     ELSE NoParse

\* (.+?) : group 1 is s[p0+1..e1], lazily extended
RECURSIVE TryGroup1(_, _, _)
TryGroup1(s, p0, e1) ==
  IF e1 > Len(s) \/ s[e1] \notin Dot THEN NoParse
  ELSE LET r == TryDelimiter(s, p0, e1, e1 + RunLen(s, e1 + 1, Space))
       IN IF r.ok THEN r ELSE TryGroup1(s, p0, e1 + 1)

\* ^\s* : the leading whitespace is s[1..p0], greedily shortened
RECURSIVE TryLeading(_, _)
TryLeading(s, p0) ==
  LET r == TryGroup1(s, p0, p0 + 1)
  IN IF r.ok THEN r
     ELSE IF p0 > 0 THEN TryLeading(s, p0 - 1)
     ELSE NoParse

\* re.match(r'^\s*(.+?)\s*([^\uAC00-\uD7A3a-zA-Z0-9\s])(.*?)\2\s*$', sample)
SampleMatch(sample) == TryLeading(sample, RunLen(sample, 1, Space))

\* the characters re.escape puts a backslash before
EscapedChars == {"(", "*", "+", "-", ".", " ", "\n"}

\* re.escape of one character
ReEscape(c) == IF c \in EscapedChars THEN <<"\\", c>> ELSE <<c>>

\* the pattern text f"({part1_pattern}){delimiter}({part2_pattern}){delimiter}":
\* the two fixed group patterns around the escaped delimiter
DerivedPattern(delimiter) ==
  [kind |-> "two_groups", delimiter |-> delimiter]

\* generate_regex_from_sample: the pattern, or the ValueError
generate_regex_from_sample(sample) ==
  LET match == SampleMatch(sample)
  IN IF ~match.ok
     THEN [ok |-> FALSE, error |-> "ValueError",
           pattern |-> [kind |-> "none", delimiter |-> << >>]]
     ELSE [ok |-> TRUE, error |-> "",
           pattern |-> DerivedPattern(ReEscape(match.delimiter))]

---------------------------------------------------------------------------
\* Matching a pattern of generate_regex_from_sample's shape,
\*   ([P]{1,20})D([T]+(?:,\s*[T]+)*)D
\* where P is the class of group 1, T the single-term class and D the escaped
\* delimiter.  Each operator returns the index of the match's last character,
\* or 0 when nothing matches.

\* the character an escaped delimiter matches
Literal(esc) == esc[Len(esc)]

RECURSIVE TryTerm(_, _, _, _)
RECURSIVE TryRepeat(_, _, _)
RECURSIVE TryCommaSpace(_, _, _, _)

\* [T]+ from t[j], k characters long, greedily shortened; then the repeats
TryTerm(t, j, k, d) ==
  IF k < 1 THEN 0
  ELSE LET r == TryRepeat(t, j + k, d)
       IN IF r # 0 THEN r ELSE TryTerm(t, j, k - 1, d)

\* (?:,\s*[T]+)* at t[i]: one more repeat is tried before the closing D
TryRepeat(t, i, d) ==
  LET more == IF i <= Len(t) /\ t[i] = ","
              THEN TryCommaSpace(t, i + 1, RunLen(t, i + 1, Space), d)
              ELSE 0
  IN IF more # 0 THEN more
     ELSE IF i <= Len(t) /\ t[i] = d THEN i
     ELSE 0

\* \s* after the comma, w characters long, greedily shortened
TryCommaSpace(t, i, w, d) ==
  LET r == TryTerm(t, i + w, RunLen(t, i + w, SingleTermClass), d)
  IN IF r # 0 THEN r
     ELSE IF w > 0 THEN TryCommaSpace(t, i, w - 1, d)
     ELSE 0

NoMatch == [ok |-> FALSE, g1 |-> << >>, g2 |-> << >>, last |-> 0]

\* group 1 from t[start], m characters long, greedily shortened
RECURSIVE TryPart1(_, _, _, _)
TryPart1(t, start, m, d) ==
  IF m < 1 THEN NoMatch
  ELSE LET i == start + m
           r == IF i <= Len(t) /\ t[i] = d
                THEN TryTerm(t, i + 1, RunLen(t, i + 1, SingleTermClass), d)
                ELSE 0
       IN IF r # 0
          THEN [ok |-> TRUE, g1 |-> Slice(t, start, i - 1),
                g2 |-> Slice(t, i + 1, r - 1), last |-> r]
          ELSE TryPart1(t, start, m - 1, d)

\* the match of the pattern that starts at t[start], if there is one
MatchAt(pattern, t, start) ==
  IF pattern.kind = "two_groups"
  THEN TryPart1(t, start, Min(Part1Max, RunLen(t, start, Part1Class)),
                Literal(pattern.delimiter))
  ELSE LET m == Min(Part1Max, RunLen(t, start, Part1Class))
       IN IF m < 1 THEN NoMatch
          ELSE [ok |-> TRUE, g1 |-> Slice(t, start, start + m - 1),
                g2 |-> << >>, last |-> start + m - 1]

\* re.search from position start on: the leftmost match
RECURSIVE SearchFrom(_, _, _)
SearchFrom(pattern, t, start) ==
  IF start > Len(t) THEN NoMatch
  ELSE LET r == MatchAt(pattern, t, start)
       IN IF r.ok THEN r ELSE SearchFrom(pattern, t, start + 1)

\* re.search(pattern, t)
Search(pattern, t) == SearchFrom(pattern, t, 1)

\* re.findall(pattern, t): the non-overlapping matches, left to right
RECURSIVE FindAllFrom(_, _, _)
FindAllFrom(pattern, t, start) ==
  LET r == SearchFrom(pattern, t, start)
  IN IF ~r.ok THEN << >>
     ELSE <<r>> \o FindAllFrom(pattern, t, r.last + 1)

FindAll(pattern, t) == FindAllFrom(pattern, t, 1)

---------------------------------------------------------------------------
(* POST /api/generate-regex *)

NoPattern == [kind |-> "none", delimiter |-> << >>]

\* generate_regex_endpoint: the JSON body has no 'sample' (400), the sample is
\* malformed (ValueError, 400), the sample is no string (re.match raises a
\* TypeError, 500), or the pattern is returned (200)
generate_regex_endpoint(req) ==
  IF req.sample_type = "absent"
  THEN [status |-> 400, message |-> "sample_required", regex |-> NoPattern]
  ELSE IF req.sample_type # "string"
  THEN [status |-> 500, message |-> "regex_server_error", regex |-> NoPattern]
  ELSE LET r == generate_regex_from_sample(req.sample)
       IN IF r.ok
          THEN [status |-> 200, message |-> "", regex |-> r.pattern]
          ELSE [status |-> 400, message |-> "malformed_sample",
                regex |-> NoPattern]

\* the longest sample enumerated character by character
MaxSampleLen == 4

\* the longest second segment of an enumerated sample A d B d
MaxSegmentLen == 3

SampleAlphabet == {"GA", "a", " ", "\n", ".", "-", ",", "+"}

\* n copies of character c
Repeat(c, n) == [i \in 1..n |-> c]

\* samples A d B d with short segments, and with a first segment of just
\* under, exactly and just over the ceiling of group 1
SegmentedSamples ==
  {a \o <<d>> \o b \o <<d>> :
     a \in StrsUpTo({"GA", "a", " ", "."}, 1, 2)
           \cup {Repeat("a", n) : n \in (Part1Max - 1)..(Part1Max + 1)},
     d \in {"+", ".", ",", "-"},
     b \in StrsUpTo({"a", ",", " ", "+"}, 1, MaxSegmentLen)}

Samples == StrsUpTo(SampleAlphabet, 0, MaxSampleLen) \cup SegmentedSamples

RegexRequests ==
  [sample_type : {"string"}, sample : Samples]
    \cup [sample_type : {"absent", "number"}, sample : {<< >>}]

InitDerive ==
  /\ pc = "idle"
  /\ request \in RegexRequests
  /\ response = [status |-> 0, message |-> "", regex |-> NoPattern]
  /\ previous = << >>
  /\ page_range_iterator = << >>
  /\ scanned = 0
  /\ results = << >>

GenerateRegex ==
  /\ pc = "idle"
  /\ pc' = "done"
  /\ response' = generate_regex_endpoint(request)
  /\ UNCHANGED <<request, previous, page_range_iterator, scanned, results>>

NextDerive == GenerateRegex

SpecDerive == InitDerive /\ [][NextDerive]_vars

\* how often character c occurs in s
Count(c, s) == Cardinality({i \in 1..Len(s) : s[i] = c})

\* the ways to read s as A d B d: d closes the sample, is of the delimiter
\* class, and occurs in neither of the non-empty segments A and B
Readings(s) ==
  {r \in [a : {Slice(s, 1, i - 1) : i \in 2..Len(s)},
          d : DelimClass,
          b : {Slice(s, i, Len(s) - 1) : i \in 3..Len(s)}] :
     /\ s = r.a \o <<r.d>> \o r.b \o <<r.d>>
     /\ r.b # << >>
     /\ Count(r.d, r.a) = 0
     /\ Count(r.d, r.b) = 0}

\* the round trip of a reading: derive succeeds and the emitted pattern,
\* searched in the sample, captures A and B
RoundTrips(r, s) ==
  /\ response.status = 200
  /\ LET m == Search(response.regex, s)
     IN m.ok /\ m.g1 = r.a /\ m.g2 = r.b

\* the characters the amended claim allows in the first segment: Hangul
\* syllables, Latin letters, digits, whitespace and the full stop
FirstSegmentChars == Hangul \cup Latin \cup Digits \cup Space \cup {"."}

\* the characters the amended claim allows in a term of the second segment
TermChars == Latin \cup Digits \cup Space \cup LatinExt \cup {".", "-", "("}

\* the second segment is comma-separated non-empty terms (the whitespace
\* after a comma is itself of the term characters)
InPart2Language(b) ==
  /\ b # << >>
  /\ \A i \in 1..Len(b) : b[i] \in TermChars \cup {","}
  /\ b[1] # "," /\ b[Len(b)] # ","
  /\ \A i \in 1..(Len(b) - 1) : ~(b[i] = "," /\ b[i + 1] = ",")

\* the first segment is 1 to 20 of its characters
InPart1Language(a) ==
  /\ Len(a) >= 1 /\ Len(a) <= 20
  /\ \A i \in 1..Len(a) : a[i] \in FirstSegmentChars

Served == pc = "done" /\ request.sample_type = "string"

C2_NoTwoDelimitersRejected ==
  (Served /\ \A c \in DelimClass : Count(c, request.sample) < 2) =>
     /\ response.status = 400
     /\ response.message = "malformed_sample"
     /\ response.regex = NoPattern

\* the sample a+b- was served and rejected
C2_Witness ==
  /\ Served
  /\ request.sample = <<"a", "+", "a", "-">>
  /\ response.status = 400

\* C3 as claimed: a derived delimiter occurs exactly twice in its sample
C3_DelimiterExactlyTwice ==
  (Served /\ response.status = 200) =>
     Count(Literal(response.regex.delimiter), request.sample) = 2

---------------------------------------------------------------------------
(* process_name_line_s1 *)

Null == [null |-> TRUE, text |-> << >>]

\* re.match(r'([\uAC00-\uD7A3\s]+)([a-zA-Z\s]+)', text): group 1 takes k
\* characters, greedily shortened, and group 2 the run that follows it
RECURSIVE TryNameGroups(_, _)
TryNameGroups(text, k) ==
  IF k < 1 THEN [ok |-> FALSE, g1 |-> << >>, g2 |-> << >>]
  ELSE LET n == RunLen(text, k + 1, Latin \cup Space)
       IN IF n >= 1
          THEN [ok |-> TRUE, g1 |-> Slice(text, 1, k),
                g2 |-> Slice(text, k + 1, k + n)]
          ELSE TryNameGroups(text, k - 1)

\* f"{names[-1]}, {' '.join(names[:-1])}" if len(names) >= 2 else part
Reformat(part) ==
  LET names == Split(part)
  IN IF Len(names) >= 2
     THEN names[Len(names)] \o <<",", " ">>
            \o Join(SubSeq(names, 1, Len(names) - 1), <<" ">>)
     ELSE part

process_name_line_s1(line) ==
  IF Len(line) = 0 \/ line[1] # "*" THEN Null
  ELSE LET text == Strip(LStrip(line, {"*"}))
           match == TryNameGroups(text, RunLen(text, 1, Hangul \cup Space))
       IN IF ~match.ok THEN Null
          ELSE [null |-> FALSE,
                text |-> Reformat(Strip(match.g1)) \o Reformat(Strip(match.g2))]

\* the most name tokens in an enumerated line
MaxTokens == 4

\* the longest line enumerated character by character
MaxLineLen == 3

NameTokens == {<<"GA">>, <<"NA">>, <<"a">>, <<"b">>, <<"a", "-", "b">>}

\* lines built from name tokens behind a marker (or none), and short lines of
\* arbitrary characters
NameLines ==
  {prefix \o Join(toks, <<" ">>) :
     prefix \in {<< >>, <<"*">>, <<"*", "*">>, <<"*", " ">>},
     toks \in StrsUpTo(NameTokens, 0, MaxTokens)}
    \cup StrsUpTo({"*", "GA", "a", " ", "-"}, 0, MaxLineLen)

InitName ==
  /\ pc = "idle"
  /\ request \in [line : NameLines]
  /\ response = Null
  /\ previous = << >>
  /\ page_range_iterator = << >>
  /\ scanned = 0
  /\ results = << >>

\* the line is handed to process_name_line_s1, as handle_tab2 does for each
\* paragraph
ReformatLine ==
  /\ pc = "idle"
  /\ pc' = "done"
  /\ response' = process_name_line_s1(request.line)
  /\ UNCHANGED <<request, previous, page_range_iterator, scanned, results>>

NextName == ReformatLine

SpecName == InitName /\ [][NextName]_vars

\* a run's tokens, the last one first, then a comma and the others in order
\* (a run of one token has nothing to reorder)
Reordered(toks) ==
  IF Len(toks) = 1 THEN toks[1]
  ELSE toks[Len(toks)] \o <<",", " ">>
         \o Join(SubSeq(toks, 1, Len(toks) - 1), <<" ">>)

IsHangulToken(t) == \A i \in 1..Len(t) : t[i] \in Hangul

\* a token of a Latin-script name: Latin letters, hyphenated or not
IsLatinToken(t) ==
  /\ \A i \in 1..Len(t) : t[i] \in Latin \cup {"-"}
  /\ t[1] \in Latin /\ t[Len(t)] \in Latin

\* C8 as claimed: a line without the leading marker gives null, and a marked
\* line of a Hangul run followed by a Latin run gives the two runs, each
\* reordered, with nothing between them
C8_NameReformatted ==
  pc = "done" =>
    LET line == request.line
        toks == Split(Slice(line, 2, Len(line)))
        h == RunLen(toks, 1, {t \in NameTokens : IsHangulToken(t)})
    IN /\ (Len(line) = 0 \/ line[1] # "*") => response.null
       /\ (/\ Len(line) > 0 /\ line[1] = "*"
           /\ line = <<"*">> \o Join(toks, <<" ">>)
           /\ h >= 1 /\ h < Len(toks)
           /\ \A i \in (h + 1)..Len(toks) : IsLatinToken(toks[i]))
          => /\ ~response.null
             /\ response.text = Reordered(SubSeq(toks, 1, h))
                                  \o Reordered(SubSeq(toks, h + 1, Len(toks)))

---------------------------------------------------------------------------
(* handle_tab1 *)

\* the outcome of a handler: the document it returns, or the exception it
\* raises (a ValueError with its message, or another exception)
Raised(kind, message) == [outcome |-> kind, message |-> message, items |-> << >>]

Returned(items) == [outcome |-> "ok", message |-> "", items |-> items]

\* prefix and suffix kept equal to the decorator's first character
DecorateFirstOnly(decorator_str) ==
  IF Len(decorator_str) >= 1
  THEN <<Slice(decorator_str, 1, 1), Slice(decorator_str, 1, 1)>>
  ELSE << << >>, << >> >>

\* prefix, suffix = ('', ''); one character: both; two or more: first, second
Decorate(decorator_str) ==
  IF Len(decorator_str) = 1 THEN <<decorator_str, decorator_str>>
  ELSE IF Len(decorator_str) >= 2
  THEN <<Slice(decorator_str, 1, 1), Slice(decorator_str, 2, 2)>>
  ELSE << << >>, << >> >>

\* a capture group kept as matched
KeepGroup(group) == group

\* str(match[i]).strip()
StripGroup(group) == Strip(group)

\* the formatted item of one match, or the empty string when the match is
\* skipped (continue)
FormatMatch(pattern, match, decoration) ==
  IF pattern.kind = "two_groups"
  THEN LET part1 == StripGroup(match.g1)
           part2 == StripGroup(match.g2)
       IN IF part1 # << >> /\ part2 # << >>
          THEN part1 \o decoration[1] \o part2 \o decoration[2]
          ELSE << >>
  ELSE StripGroup(match.g1)

\* the loop over the matches: unique_formatted_matches and seen
RECURSIVE UniqueFormatted(_, _, _, _)
UniqueFormatted(pattern, matches, decoration, unique_formatted_matches) ==
  IF matches = << >> THEN unique_formatted_matches
  ELSE LET formatted_item == FormatMatch(pattern, Head(matches), decoration)
           seen == {unique_formatted_matches[i] :
                      i \in 1..Len(unique_formatted_matches)}
       IN UniqueFormatted(pattern, Tail(matches), decoration,
            IF formatted_item # << >> /\ formatted_item \notin seen
            THEN Append(unique_formatted_matches, formatted_item)
            ELSE unique_formatted_matches)

handle_tab1(file, regex_pattern, decorator_str) ==
  IF regex_pattern.kind = "invalid"
  THEN Raised("ValueError", "invalid_pattern")
  ELSE IF ~file.readable
  THEN Raised("Exception", "cannot_open_document")
  ELSE LET full_text == Join(file.paragraphs, <<"\n">>)
           matches == FindAll(regex_pattern, full_text)
       IN IF matches = << >>
          THEN Raised("ValueError", "no_match")
          ELSE IF ~decorator_str.given
          THEN Raised("Exception", "TypeError_len_of_None")
          ELSE LET unique_formatted_matches ==
                     UniqueFormatted(regex_pattern, matches,
                                     Decorate(decorator_str.text), << >>)
               IN IF unique_formatted_matches = << >>
                  THEN Raised("ValueError", "no_valid_data")
                  ELSE Returned(unique_formatted_matches)

\* the most paragraphs of an enumerated document
MaxParagraphs == 2

\* the longest paragraph enumerated character by character
MaxParagraphLen == 3

\* paragraphs of the shape the derived patterns look for, with and without
\* whitespace around the two parts
EntryParagraphs ==
  {part1 \o <<d>> \o part2 \o <<d>> :
     part1 \in {<<"a">>, <<" ", "b">>, <<" ">>},
     d \in {"+", "."},
     part2 \in {<<"a">>, <<"b", " ">>, <<" ", ",", "b">>}}

Tab1Files ==
  [readable : {TRUE},
   paragraphs : StrsUpTo(EntryParagraphs, 0, MaxParagraphs)
                  \cup {<<p>> : p \in StrsUpTo({"a", " ", "+", ","}, 1,
                                                MaxParagraphLen)}]
    \cup [readable : {FALSE}, paragraphs : {<< >>}]

Tab1Patterns ==
  {DerivedPattern(ReEscape("+")), DerivedPattern(ReEscape(".")),
   [kind |-> "no_group", delimiter |-> << >>],
   [kind |-> "invalid", delimiter |-> << >>]}

Tab1Decorators ==
  [given : {TRUE},
   text : {<< >>, <<"+">>, <<".">>, <<"+", "-">>, <<"+", "+", "a">>}]
    \cup [given : {FALSE}, text : {<< >>}]

InitTab1 ==
  /\ pc = "idle"
  /\ request \in [file : Tab1Files, regex : Tab1Patterns,
                  decorator : Tab1Decorators]
  /\ response = Raised("none", "")
  /\ previous = Raised("none", "")
  /\ page_range_iterator = << >>
  /\ scanned = 0
  /\ results = << >>

\* handle_tab1 on the uploaded document
RunTab1 ==
  /\ pc = "idle"
  /\ pc' = "done"
  /\ response' = handle_tab1(request.file, request.regex, request.decorator)
  /\ UNCHANGED <<request, previous, page_range_iterator, scanned, results>>

\* handle_tab1 again, with the same pattern and decorator, on a document whose
\* paragraphs are the entries it produced
RunTab1OnOutput ==
  /\ pc = "done"
  /\ response.outcome = "ok"
  /\ pc' = "redone"
  /\ previous' = response
  /\ request' = [request EXCEPT !.file.paragraphs = response.items]
  /\ response' = handle_tab1(request'.file, request.regex, request.decorator)
  /\ UNCHANGED <<page_range_iterator, scanned, results>>

NextTab1 == RunTab1 \/ RunTab1OnOutput

SpecTab1 == InitTab1 /\ [][NextTab1]_vars

\* the decoration the claim states: nothing for no character, the character
\* on both sides for one, the first and the second for two or more
ClaimedPrefix(text) == IF Len(text) = 0 THEN << >> ELSE <<text[1]>>

ClaimedSuffix(text) ==
  IF Len(text) = 0 THEN << >>
  ELSE IF Len(text) = 1 THEN <<text[1]>> ELSE <<text[2]>>

\* the entry of a match, its groups as captured
RawEntry(m, text) == m.g1 \o ClaimedPrefix(text) \o m.g2 \o ClaimedSuffix(text)

\* the entry of a match, its groups trimmed of surrounding whitespace
TrimmedEntry(m, text) ==
  Strip(m.g1) \o ClaimedPrefix(text) \o Strip(m.g2) \o ClaimedSuffix(text)

\* a match both of whose trimmed groups are non-empty
ValidMatch(m) == Strip(m.g1) # << >> /\ Strip(m.g2) # << >>

\* the request is one handle_tab1 gets as far as formatting: a readable
\* document, a pattern with two groups, a decorator
TwoGroupRun ==
  /\ pc = "done"
  /\ request.file.readable
  /\ request.regex.kind = "two_groups"
  /\ request.decorator.given

Tab1Matches == FindAll(request.regex, Join(request.file.paragraphs, <<"\n">>))

\* items lists each string of entries once, at the place of its first
\* occurrence in entries
FirstOccurrences(items, entries) ==
  LET first(x) == CHOOSE k \in 1..Len(entries) :
                     /\ entries[k] = x
                     /\ \A j \in 1..(k - 1) : entries[j] # x
  IN /\ {items[i] : i \in 1..Len(items)} = {entries[k] : k \in 1..Len(entries)}
     /\ \A i, j \in 1..Len(items) :
           i < j => /\ items[i] # items[j]
                    /\ first(items[i]) < first(items[j])

\* C6 as claimed: the output lists group1 + prefix + group2 + suffix of every
\* match, in match order, each distinct string once
C6_EntriesOfAllMatches ==
  TwoGroupRun =>
    IF Tab1Matches = << >>
    THEN response.outcome = "ValueError"
    ELSE response.outcome = "ok" =>
           FirstOccurrences(response.items,
             [k \in 1..Len(Tab1Matches) |->
                RawEntry(Tab1Matches[k], request.decorator.text)])

\* the matches whose trimmed groups are both non-empty, in match order
RECURSIVE ValidOnly(_)
ValidOnly(matches) ==
  IF matches = << >> THEN << >>
  ELSE IF ValidMatch(Head(matches))
       THEN <<Head(matches)>> \o ValidOnly(Tail(matches))
       ELSE ValidOnly(Tail(matches))

\* C6, amended: each group is trimmed of surrounding whitespace and a match
\* with an empty trimmed group gives no entry; the output lists
\* group1 + prefix + group2 + suffix of the other matches, in match order,
\* each distinct string once; no match at all, or none that gives an entry,
\* is the no-match error
C6_EntriesOfTrimmedMatches ==
  TwoGroupRun =>
    LET valid == ValidOnly(Tab1Matches)
    IN IF Tab1Matches = << >>
       THEN response.outcome = "ValueError" /\ response.message = "no_match"
       ELSE IF valid = << >>
       THEN /\ response.outcome = "ValueError"
            /\ response.message = "no_valid_data"
       ELSE /\ response.outcome = "ok"
            /\ FirstOccurrences(response.items,
                 [k \in 1..Len(valid) |->
                    TrimmedEntry(valid[k], request.decorator.text)])

\* a run that trimmed a group, dropped a repeat and decorated with the first
\* and second of two characters
C6_Witness ==
  /\ TwoGroupRun
  /\ response.outcome = "ok"
  /\ request.decorator.text = <<"+", "-">>
  /\ Len(Tab1Matches) = 2
  /\ Len(response.items) = 1
  /\ \E k \in 1..2 : Tab1Matches[k].g1 # Strip(Tab1Matches[k].g1)
  /\ response.items[1] = <<"b", "+", "a", "-">>

IsFullMatch(x, d) ==
  \E i \in 2..(Len(x) - 2) :
     /\ x[i] = d /\ x[Len(x)] = d
     /\ InPart1Language(Slice(x, 1, i - 1))
     /\ InPart2Language(Slice(x, i + 1, Len(x) - 1))
     /\ Count(d, x) = 2

\* the second run of a derived pattern whose delimiter is in neither group's
\* class and no comma, decorated with that delimiter on both sides, over
\* entries that each match the pattern in full
FaithfulRerun ==
  /\ pc = "redone"
  /\ request.regex.kind = "two_groups"
  /\ LET d == Literal(request.regex.delimiter)
     IN /\ d \notin FirstSegmentChars \cup TermChars \cup {","}
        /\ ClaimedPrefix(request.decorator.text) = <<d>>
        /\ ClaimedSuffix(request.decorator.text) = <<d>>
        /\ \A j \in 1..Len(previous.items) : IsFullMatch(previous.items[j], d)

---------------------------------------------------------------------------
(* handle_tab5 *)

\* x < y in Python's string order: code point by code point, a proper prefix
\* first
RECURSIVE StrLess(_, _)
StrLess(x, y) ==
  IF y = << >> THEN FALSE
  ELSE IF x = << >> THEN TRUE
  ELSE IF Ord(Head(x)) # Ord(Head(y)) THEN Ord(Head(x)) < Ord(Head(y))
  ELSE StrLess(Tail(x), Tail(y))

\* sorted(S) of a set of strings
RECURSIVE SortedSeq(_)
SortedSeq(S) ==
  IF S = {} THEN << >>
  ELSE LET least == CHOOSE x \in S : \A y \in S \ {x} : StrLess(x, y)
       IN <<least>> \o SortedSeq(S \ {least})

\* the lines as the rows gave them: not sorted, repeats kept
KeepLines(processed_lines) == processed_lines

\* sorted(list(set(processed_lines)))
UniqueSorted(processed_lines) ==
  SortedSeq({processed_lines[i] : i \in 1..Len(processed_lines)})

\* the separator between the two columns of a line: four spaces
Separator == <<" ", " ", " ", " ">>

\* the line of one row, or no line
RowLines(row) ==
  IF Len(row) < 4 THEN << >>
  ELSE LET col2_text == Strip(row[2])
           col3_text == Strip(row[3])
           col4_text == Strip(row[4])
       IN IF col2_text # << >> /\ col3_text = << >>
          THEN <<col2_text \o Separator \o col4_text>>
          ELSE IF col2_text # << >> /\ col3_text # << >>
          THEN <<col3_text \o Separator \o col4_text>>
          ELSE << >>

\* the loop over table.rows[1:]
RECURSIVE ProcessedLines(_)
ProcessedLines(rows) ==
  IF rows = << >> THEN << >>
  ELSE RowLines(Head(rows)) \o ProcessedLines(Tail(rows))

handle_tab5(file) ==
  IF ~file.readable THEN Raised("Exception", "cannot_open_document")
  ELSE IF file.tables = << >> THEN Raised("ValueError", "no_table")
  ELSE LET table == file.tables[1]
       IN IF table.columns < 4
          THEN Raised("ValueError", "fewer_than_4_columns")
          ELSE LET processed_lines ==
                     ProcessedLines(Slice(table.rows, 2, Len(table.rows)))
               IN IF processed_lines = << >>
                  THEN Raised("ValueError", "no_data")
                  ELSE Returned(UniqueSorted(processed_lines))

\* the most data rows of an enumerated table
MaxRows == 3

HeaderRow == <<<<"a">>, <<"a">>, <<"a">>, <<"a">>>>

\* data rows: four cells, or three (a row the table's grid does not fill)
Tab5Rows ==
  {<<<< >>, c2, c3, c4>> :
     c2 \in {<< >>, <<" ">>, <<"a">>, <<" ", "b">>},
     c3 \in {<< >>, <<" ">>, <<"b">>},
     c4 \in {<<"a">>, <<"b", " ">>}}
    \cup {<<<< >>, <<"a">>, << >>>>}

Tab5Files ==
  [readable : {TRUE},
   tables : {<<[columns |-> 4, rows |-> <<HeaderRow>> \o rows]>> :
               rows \in StrsUpTo(Tab5Rows, 0, MaxRows)}
            \cup {<< >>,
                  <<[columns |-> 3,
                     rows |-> <<SubSeq(HeaderRow, 1, 3),
                                <<<< >>, <<"a">>, << >>>>>>]>>,
                  <<[columns |-> 4, rows |-> << >>]>>}]
    \cup [readable : {FALSE}, tables : {<< >>}]

InitTab5 ==
  /\ pc = "idle"
  /\ request \in [file : Tab5Files]
  /\ response = Raised("none", "")
  /\ previous = Raised("none", "")
  /\ page_range_iterator = << >>
  /\ scanned = 0
  /\ results = << >>

RunTab5 ==
  /\ pc = "idle"
  /\ pc' = "done"
  /\ response' = handle_tab5(request.file)
  /\ UNCHANGED <<request, previous, page_range_iterator, scanned, results>>

NextTab5 == RunTab5

SpecTab5 == InitTab5 /\ [][NextTab5]_vars

\* the data rows of the request's table that have at least 4 columns
Tab5DataRows ==
  LET rows == request.file.tables[1].rows
  IN {rows[i] : i \in 2..Len(rows)} \cap {r \in Tab5Rows : Len(r) >= 4}

\* the lines the rows emit, the rule applied to the cells as they are
RawLines ==
  {r[2] \o Separator \o r[4] :
     r \in {q \in Tab5DataRows : q[2] # << >> /\ q[3] = << >>}}
    \cup {r[3] \o Separator \o r[4] :
            r \in {q \in Tab5DataRows : q[2] # << >> /\ q[3] # << >>}}

\* the lines the rows emit, the rule applied to the cells trimmed of
\* surrounding whitespace
TrimmedLines ==
  {Strip(r[2]) \o Separator \o Strip(r[4]) :
     r \in {q \in Tab5DataRows : Strip(q[2]) # << >> /\ Strip(q[3]) = << >>}}
    \cup {Strip(r[3]) \o Separator \o Strip(r[4]) :
            r \in {q \in Tab5DataRows :
                     Strip(q[2]) # << >> /\ Strip(q[3]) # << >>}}

\* the output is strictly ascending by code point and holds exactly lines
AscendingExactly(items, lines) ==
  /\ \A i \in 1..(Len(items) - 1) : StrLess(items[i], items[i + 1])
  /\ {items[i] : i \in 1..Len(items)} = lines

Tab5Done == pc = "done" /\ response.outcome = "ok"

\* C7 as claimed: the output is the ascending, duplicate-free list of the
\* lines the rows emit by the rule over columns 2, 3 and 4
C7_SortedRawLines == Tab5Done => AscendingExactly(response.items, RawLines)

\* C7, amended: the rule reads each cell trimmed of surrounding whitespace (a
\* cell of whitespace only counts as empty, and the emitted columns are the
\* trimmed texts); the output is the ascending, duplicate-free list of the
\* emitted lines, and when no row emits a line the handler fails instead
C7_SortedTrimmedLines ==
  (pc = "done" /\ request.file.readable /\ request.file.tables # << >>
     /\ request.file.tables[1].columns >= 4) =>
    IF TrimmedLines = {}
    THEN response.outcome = "ValueError" /\ response.message = "no_data"
    ELSE /\ response.outcome = "ok"
         /\ AscendingExactly(response.items, TrimmedLines)

\* three rows gave two lines: the second and the third the same line out of
\* different columns, the first a line that sorts after it, and cells were
\* trimmed
C7_Witness ==
  /\ Tab5Done
  /\ Len(request.file.tables[1].rows) = 4
  /\ Len(response.items) = 2
  /\ LET rows == request.file.tables[1].rows
     IN /\ RowLines(rows[2]) = <<response.items[2]>>
        /\ RowLines(rows[3]) = <<response.items[1]>>
        /\ RowLines(rows[4]) = <<response.items[1]>>
        /\ Strip(rows[3][3]) = << >>
        /\ Strip(rows[4][3]) # << >>
        /\ rows[3][2] # Strip(rows[3][2])
        /\ rows[2][4] # Strip(rows[2][4])

---------------------------------------------------------------------------
(* handle_tab4 *)

DigitValue(c) ==
  CASE c = "0" -> 0 [] c = "1" -> 1 [] c = "2" -> 2 [] c = "3" -> 3

\* int() of a string of digits
RECURSIVE ParseInt(_)
ParseInt(digits) ==
  IF digits = << >> THEN 0
  ELSE 10 * ParseInt(SubSeq(digits, 1, Len(digits) - 1))
         + DigitValue(digits[Len(digits)])

\* re.match(r'^\s*(\d+)\s*-\s*(\d+)\s*$', page_range_str) and the two int()
ParsePageRange(page_range_str) ==
  LET s == page_range_str
      i1 == 1 + RunLen(s, 1, Space)
      n1 == RunLen(s, i1, Digits)
      i2 == i1 + n1 + RunLen(s, i1 + n1, Space)
      i3 == i2 + 1 + RunLen(s, i2 + 1, Space)
      n2 == RunLen(s, i3, Digits)
      i4 == i3 + n2 + RunLen(s, i3 + n2, Space)
  IN IF n1 >= 1 /\ i2 <= Len(s) /\ s[i2] = "-" /\ n2 >= 1 /\ i4 = Len(s) + 1
     THEN [ok |-> TRUE, first |-> ParseInt(Slice(s, i1, i1 + n1 - 1)),
           last |-> ParseInt(Slice(s, i3, i3 + n2 - 1))]
     ELSE [ok |-> FALSE, first |-> 0, last |-> 0]

\* range(lo, hi)
PyRange(lo, hi) == [i \in 1..(hi - lo) |-> lo + i - 1]

\* a range is taken only when its first page lies before its last
RangeAcceptedStrict(start_page, end_page, total_pages) ==
  0 <= start_page /\ start_page + 1 < end_page /\ end_page <= total_pages

\* 0 <= start_page < end_page <= total_pages
RangeAccepted(start_page, end_page, total_pages) ==
  0 <= start_page /\ start_page < end_page /\ end_page <= total_pages

\* page_range_iterator: all pages, or the pages of an accepted range
PageRangeIterator(page_range_str, total_pages) ==
  IF ~page_range_str.given \/ page_range_str.text = << >>
  THEN PyRange(0, total_pages)
  ELSE LET match == ParsePageRange(page_range_str.text)
           start_page == match.first - 1
           end_page == match.last
       IN IF match.ok /\ RangeAccepted(start_page, end_page, total_pages)
          THEN PyRange(start_page, end_page)
          ELSE PyRange(0, total_pages)

\* the stripped, non-empty texts of column 2 of the rows below the header
RECURSIVE TermsOfRows(_)
TermsOfRows(rows) ==
  IF rows = << >> THEN << >>
  ELSE (IF Len(Head(rows)) >= 2 /\ Strip(Head(rows)[2]) # << >>
        THEN <<Strip(Head(rows)[2])>> ELSE << >>)
         \o TermsOfRows(Tail(rows))

SearchTerms(table) == TermsOfRows(Slice(table.rows, 2, Len(table.rows)))

\* the page's text as extracted, whitespace kept
PageTextRaw(page_text) == page_text

\* "".join(page.get_text("text").split())
PageTextNormalized(page_text) == Normalize(page_text)

\* one pass of the loop over the pages: page_num is 0-based
ScanStep(res, page_num, pages) ==
  LET page_text_normalized == PageTextNormalized(pages[page_num + 1])
  IN IF page_text_normalized = << >> THEN res
     ELSE [original_term \in DOMAIN res |->
             IF /\ IsSubstring(Normalize(original_term), page_text_normalized)
                /\ \A i \in 1..Len(res[original_term]) :
                      res[original_term][i] # page_num + 1
             THEN Append(res[original_term], page_num + 1)
             ELSE res[original_term]]

\* sorted() of a list of page numbers
RECURSIVE SortedNumbers(_)
SortedNumbers(S) ==
  IF S = {} THEN << >>
  ELSE LET least == CHOOSE x \in S : \A y \in S : x <= y
       IN <<least>> \o SortedNumbers(S \ {least})

\* the last cell of row i of the result table (i is 0-based)
PageCell(i, row, res) ==
  IF i = 0 THEN [kind |-> "header", pages |-> << >>]
  ELSE IF Len(row) > 1
  THEN LET term_to_find == Strip(row[2])
           found_pages == IF term_to_find \in DOMAIN res
                          THEN res[term_to_find] ELSE << >>
       IN IF found_pages # << >>
          THEN [kind |-> "pages",
                pages |-> SortedNumbers({found_pages[k] :
                                           k \in 1..Len(found_pages)})]
          ELSE [kind |-> "not_found", pages |-> << >>]
  ELSE [kind |-> "blank", pages |-> << >>]

RenderTable(table, res) ==
  [i \in 1..Len(table.rows) |-> PageCell(i - 1, table.rows[i], res)]

\* what handle_tab4 raises before the loop over the pages, if anything
Tab4Opening(pdf_file, docx_file) ==
  IF ~docx_file.readable THEN Raised("Exception", "cannot_open_document")
  ELSE IF docx_file.tables = << >> THEN Raised("ValueError", "no_table")
  ELSE IF SearchTerms(docx_file.tables[1]) = << >>
  THEN Raised("ValueError", "no_search_terms")
  ELSE IF ~pdf_file.readable THEN Raised("Exception", "cannot_open_pdf")
  ELSE Raised("none", "")

\* the loop over the pages, run to its end
RECURSIVE ScanAll(_, _, _)
ScanAll(res, iterator, pages) ==
  IF iterator = << >> THEN res
  ELSE ScanAll(ScanStep(res, Head(iterator), pages), Tail(iterator), pages)

EmptyResults(table) ==
  LET search_terms == SearchTerms(table)
  IN [term \in {search_terms[i] : i \in 1..Len(search_terms)} |-> << >>]

handle_tab4(pdf_file, docx_file, page_range_str) ==
  LET opening == Tab4Opening(pdf_file, docx_file)
  IN IF opening.outcome # "none" THEN opening
     ELSE LET table == docx_file.tables[1]
              iterator == PageRangeIterator(page_range_str, Len(pdf_file.pages))
          IN Returned(RenderTable(table,
                        ScanAll(EmptyResults(table), iterator, pdf_file.pages)))

\* handle_tab4 up to the loop over the pages
OpenTab4 ==
  /\ pc = "idle"
  /\ LET opening == Tab4Opening(request.pdf_file, request.docx_file)
     IN IF opening.outcome # "none"
        THEN /\ pc' = "done"
             /\ response' = opening
             /\ UNCHANGED <<page_range_iterator, results>>
        ELSE /\ pc' = "scanning"
             /\ page_range_iterator' =
                  PageRangeIterator(request.page_range,
                                    Len(request.pdf_file.pages))
             /\ results' = EmptyResults(request.docx_file.tables[1])
             /\ UNCHANGED response
  /\ scanned' = 0
  /\ UNCHANGED <<request, previous>>

\* one pass of the loop: for page_num in page_range_iterator
ScanPage ==
  /\ pc = "scanning"
  /\ scanned < Len(page_range_iterator)
  /\ results' = ScanStep(results, page_range_iterator[scanned + 1],
                         request.pdf_file.pages)
  /\ scanned' = scanned + 1
  /\ UNCHANGED <<pc, request, response, previous, page_range_iterator>>

\* the result table, once the loop has ended
RenderTab4 ==
  /\ pc = "scanning"
  /\ scanned = Len(page_range_iterator)
  /\ pc' = "done"
  /\ response' = Returned(RenderTable(request.docx_file.tables[1], results))
  /\ UNCHANGED <<request, previous, page_range_iterator, scanned, results>>

NextLocate == OpenTab4 \/ ScanPage \/ RenderTab4

\* the most pages of an enumerated PDF
MaxPages == 3

\* the most rows below the header of an enumerated index table
MaxTerms == 2

\* the longest page-range string enumerated character by character
MaxRangeLen == 4

IndexRows ==
  {<<<<"a">>, c2>> : c2 \in {<< >>, <<"a", "b">>, <<"a", " ", "b">>,
                             <<" ", "b">>, <<"b", "b">>}}
    \cup {<<<<"a">>>>}

IndexFiles ==
  [readable : {TRUE},
   tables : {<<[columns |-> 2, rows |-> <<<<<<"a">>, <<"a">>>>>> \o rows]>> :
               rows \in StrsUpTo(IndexRows, 0, MaxTerms)} \cup {<< >>}]
    \cup [readable : {FALSE}, tables : {<< >>}]

PdfFiles ==
  [readable : {TRUE},
   pages : StrsUpTo({<<" ">>, <<"a", " ", "b">>, <<"b", "a">>}, 0, MaxPages)]
    \cup [readable : {FALSE}, pages : {<< >>}]

NoRange == [given |-> FALSE, text |-> << >>]

InitLocate ==
  /\ pc = "idle"
  /\ request \in
       [pdf_file : PdfFiles, docx_file : IndexFiles,
        page_range : {NoRange} \cup
                     [given : {TRUE},
                      text : {<<"2", "-", "3">>, <<"2", "-", "2">>,
                              <<"3", "-", "1">>}]]
  /\ response = Raised("none", "")
  /\ previous = Raised("none", "")
  /\ page_range_iterator = << >>
  /\ scanned = 0
  /\ results = << >>

SpecLocate == InitLocate /\ [][NextLocate]_vars

\* every page-range string, over a fixed index of one term
InitRange ==
  /\ pc = "idle"
  /\ request \in
       [pdf_file : [readable : {TRUE},
                    pages : {Repeat(<<"a">>, n) : n \in 0..MaxPages}],
        docx_file : {[readable |-> TRUE,
                      tables |-> <<[columns |-> 2,
                                    rows |-> <<<<<<"a">>, <<"a">>>>,
                                               <<<<"a">>, <<"a">>>>>>]>>]},
        page_range : {NoRange} \cup
                     [given : {TRUE},
                      text : StrsUpTo({"0", "1", "2", "3", "-", " "}, 0,
                                      MaxRangeLen)]]
  /\ response = Raised("none", "")
  /\ previous = Raised("none", "")
  /\ page_range_iterator = << >>
  /\ scanned = 0
  /\ results = << >>

SpecRange == InitRange /\ [][NextLocate]_vars

\* s with every whitespace character removed
WithoutSpace(s) == SelectSeq(s, LAMBDA c : c \notin Space)

\* the term is found on page p (1-based): the term without its whitespace is
\* a substring of the page's text without its whitespace
FoundOn(term, p) ==
  IsSubstring(WithoutSpace(term), WithoutSpace(request.pdf_file.pages[p]))

\* the 1-based numbers of the pages scanned so far
ScannedPages == {page_range_iterator[i] + 1 : i \in 1..scanned}

StrictlyAscending(numbers) ==
  \A i \in 1..(Len(numbers) - 1) : numbers[i] < numbers[i + 1]

Scanning == pc = "scanning" \/ (pc = "done" /\ response.outcome = "ok")

\* C4: after every scanned page each term's page list is strictly ascending
\* and holds exactly the scanned pages the term is found on, whitespace
\* ignored on both sides; a page of no text but whitespace is in no list; at
\* the end a term found nowhere is rendered "not found" and any other term
\* as its ascending pages
C4_PagesOfEachTerm ==
  /\ Scanning =>
       \A term \in DOMAIN results :
          /\ StrictlyAscending(results[term])
          /\ {results[term][i] : i \in 1..Len(results[term])}
               = {p \in ScannedPages : FoundOn(term, p)}
          /\ \A p \in ScannedPages :
                WithoutSpace(request.pdf_file.pages[p]) = << >> =>
                   \A i \in 1..Len(results[term]) : results[term][i] # p
  /\ (pc = "done" /\ response.outcome = "ok") =>
       LET rows == request.docx_file.tables[1].rows
       IN /\ scanned = Len(page_range_iterator)
          /\ \A i \in 2..Len(rows) :
                (Len(rows[i]) >= 2 /\ Strip(rows[i][2]) # << >>) =>
                   LET pages == results[Strip(rows[i][2])]
                   IN IF pages = << >>
                      THEN response.items[i].kind = "not_found"
                      ELSE /\ response.items[i].kind = "pages"
                           /\ response.items[i].pages = pages

\* the scan is over: the term "a b" was found on the two pages "a b" of
\* three, the middle page held only whitespace, and the term "bb" of the
\* other row was found nowhere
C4_Witness ==
  /\ pc = "done" /\ response.outcome = "ok"
  /\ request.pdf_file.pages = <<<<"a", " ", "b">>, <<" ">>, <<"a", " ", "b">>>>
  /\ scanned = 3
  /\ request.docx_file.tables[1].rows
       = <<<<<<"a">>, <<"a">>>>, <<<<"a">>, <<"a", " ", "b">>>>,
           <<<<"a">>, <<"b", "b">>>>>>
  /\ results[<<"a", " ", "b">>] = <<1, 3>>
  /\ results[<<"b", "b">>] = << >>
  /\ response.items[2] = [kind |-> "pages", pages |-> <<1, 3>>]
  /\ response.items[3] = [kind |-> "not_found", pages |-> << >>]

\* the readings of a string as start-end: digits, a hyphen, digits, with
\* optional whitespace around each and nothing else; SubSeq and the
\* positions are stated here without the matcher of the program
RangeReadings(s) ==
  LET Cuts == {q \in (1..Len(s)) \X (1..Len(s)) \X (1..Len(s)) \X (1..Len(s)) :
                 /\ q[1] <= q[2] /\ q[2] < q[3] /\ q[3] <= q[4]
                 /\ \A i \in q[1]..q[2] : s[i] \in Digits
                 /\ \A i \in q[3]..q[4] : s[i] \in Digits
                 /\ \E h \in (q[2] + 1)..(q[3] - 1) :
                       /\ s[h] = "-"
                       /\ \A i \in ((q[2] + 1)..(q[3] - 1)) \ {h} : s[i] \in Space
                 /\ \A i \in (1..(q[1] - 1)) \cup ((q[4] + 1)..Len(s)) :
                       s[i] \in Space}
  IN {[start |-> ParseInt(SubSeq(s, q[1], q[2])),
       end |-> ParseInt(SubSeq(s, q[3], q[4]))] : q \in Cuts}

TotalPages == Len(request.pdf_file.pages)

Opened == pc = "scanning" \/ pc = "done"

\* the readings of the request's range, none when no range was given
GivenReadings ==
  IF request.page_range.given THEN RangeReadings(request.page_range.text) ELSE {}

\* C5 as claimed: the scan is restricted to start..end exactly when the
\* range reads start-end with 1 <= start < end <= totalPages; any other
\* range scans all pages, and none is an error
C5_RangeStrict ==
  Opened =>
    /\ response.outcome \in {"none", "ok"}
    /\ LET taken == {r \in GivenReadings :
                       1 <= r.start /\ r.start < r.end /\ r.end <= TotalPages}
       IN IF taken # {}
          THEN \E r \in taken : page_range_iterator = PyRange(r.start - 1, r.end)
          ELSE page_range_iterator = PyRange(0, TotalPages)

\* C5, amended: the scan is restricted to start..end exactly when the range
\* reads start-end with 1 <= start <= end <= totalPages (a range of one
\* page, start = end, is taken); any other range, among them every one with
\* start > end or end > totalPages, scans all pages, and none is an error
C5_RangeInclusive ==
  Opened =>
    /\ response.outcome \in {"none", "ok"}
    /\ LET taken == {r \in GivenReadings :
                       1 <= r.start /\ r.start <= r.end /\ r.end <= TotalPages}
       IN IF taken # {}
          THEN \E r \in taken : page_range_iterator = PyRange(r.start - 1, r.end)
          ELSE page_range_iterator = PyRange(0, TotalPages)

\* the range "2-2" of a three-page PDF restricted the scan to page 2
C5_Witness ==
  /\ pc = "done"
  /\ TotalPages = 3
  /\ request.page_range.text = <<"2", "-", "2">>
  /\ page_range_iterator = <<1>>
  /\ scanned = 1

---------------------------------------------------------------------------
(* handle_tab2, handle_tab3 and POST /api/process/<task_name> *)

\* " ".join(re.findall(r'[\uAC00-\uD7A3]+', text))
RECURSIVE HangulRuns(_, _)
HangulRuns(text, i) ==
  IF i > Len(text) THEN << >>
  ELSE LET k == RunLen(text, i, Hangul)
       IN IF k = 0 THEN HangulRuns(text, i + 1)
          ELSE <<Slice(text, i, i + k - 1)>> \o HangulRuns(text, i + k)

extract_korean(text) == Join(HangulRuns(text, 1), <<" ">>)

\* the rows handle_tab2 adds below the header: one for every paragraph that
\* is not blank
RECURSIVE Tab2Rows(_)
Tab2Rows(paragraphs) ==
  IF paragraphs = << >> THEN << >>
  ELSE LET original_text == Strip(Head(paragraphs))
           changed_text == process_name_line_s1(original_text)
       IN (IF original_text = << >> THEN << >>
           ELSE <<<<original_text,
                    IF changed_text.null THEN << >> ELSE changed_text.text>>>>)
            \o Tab2Rows(Tail(paragraphs))

handle_tab2(file) ==
  IF ~file.readable THEN Raised("Exception", "cannot_open_document")
  ELSE Returned(<<<<<<"original">>, <<"changed">>>>>>
                  \o Tab2Rows(file.paragraphs))

\* the rows handle_tab3 adds below the header: one for every row below the
\* source's header that has at least 2 cells
RECURSIVE Tab3Rows(_)
Tab3Rows(rows) ==
  IF rows = << >> THEN << >>
  ELSE LET row == Head(rows)
       IN (IF Len(row) < 2 THEN << >>
           ELSE <<<<Strip(LStrip(row[1], {"*"})), extract_korean(row[1]),
                    row[2]>>>>)
            \o Tab3Rows(Tail(rows))

handle_tab3(file) ==
  IF ~file.readable THEN Raised("Exception", "cannot_open_document")
  ELSE IF file.tables = << >> THEN Raised("ValueError", "no_table")
  ELSE Returned(<<<<<<"original">>, <<"korean">>, <<"changed">>>>>>
                  \o Tab3Rows(Slice(file.tables[1].rows, 2,
                                    Len(file.tables[1].rows))))

NoStream == [sent |-> FALSE, items |-> << >>]

\* jsonify({"message": ...}), status
Json(status, message) ==
  [status |-> status, message |-> message, stream |-> NoStream]

\* the message of the last except clause, the same for every exception
GenericMessage == "server_internal_error"

\* what the last except clause answers: the generic message, or (were the
\* exception's text passed on) the text itself
AnswerExceptionText(text) == text

AnswerException(text) == GenericMessage

\* send_file(result_stream), or the except clause the handler's exception
\* lands in
Respond(result) ==
  IF result.outcome = "ok"
  THEN [status |-> 200, message |-> "",
        stream |-> [sent |-> TRUE, items |-> result.items]]
  ELSE IF result.outcome = "ValueError" THEN Json(400, result.message)
  ELSE Json(500, AnswerException(result.message))

\* not regex: the form has no such field, or it is the empty string
NotRegex(regex) == ~regex.given \/ regex.pattern.kind = "empty"

process_task(task_name, req) ==
  IF task_name = "tab1"
  THEN IF ~req.file.given THEN Json(400, "no_file")
       ELSE IF NotRegex(req.regex) THEN Json(400, "no_regex")
       ELSE Respond(handle_tab1(req.file, req.regex.pattern, req.decorator))
  ELSE IF task_name \in {"tab2", "tab3", "tab5"}
  THEN IF ~req.file.given THEN Json(400, "no_file")
       ELSE IF task_name = "tab2" THEN Respond(handle_tab2(req.file))
       ELSE IF task_name = "tab3" THEN Respond(handle_tab3(req.file))
       ELSE Respond(handle_tab5(req.file))
  ELSE IF task_name = "tab4"
  THEN IF ~req.pdf_file.given \/ ~req.docx_file.given
       THEN Json(400, "no_pdf_or_docx")
       ELSE Respond(handle_tab4(req.pdf_file, req.docx_file, req.page_range))
  ELSE Json(404, "unknown_task")

TaskNames == {"tab1", "tab2", "tab3", "tab4", "tab5", "tab6"}

\* uploads: none, a file that is no document, a document of paragraphs, a
\* document with a table of 4 columns, of 3 columns, and of 4 columns with
\* nothing below the header
Uploads ==
  LET Doc(paragraphs, tables) ==
        [given |-> TRUE, readable |-> TRUE, paragraphs |-> paragraphs,
         tables |-> tables]
  IN {[given |-> FALSE, readable |-> FALSE, paragraphs |-> << >>,
       tables |-> << >>],
      [given |-> TRUE, readable |-> FALSE, paragraphs |-> << >>,
       tables |-> << >>],
      Doc(<<<<"a", "+", "b", "+">>, <<"*", "GA", " ", "NA", " ", "a">>>>,
          << >>),
      Doc(<<<<"a">>>>,
          <<[columns |-> 4,
             rows |-> <<HeaderRow,
                        <<<<"*", "GA", "a">>, <<"a">>, << >>, <<"b">>>>>>]>>),
      Doc(<< >>,
          <<[columns |-> 3,
             rows |-> <<SubSeq(HeaderRow, 1, 3),
                        <<<<"GA">>, <<"b">>, << >>>>>>]>>),
      Doc(<< >>, <<[columns |-> 4, rows |-> <<HeaderRow>>]>>)}

PdfUploads ==
  {[given |-> FALSE, readable |-> FALSE, pages |-> << >>],
   [given |-> TRUE, readable |-> FALSE, pages |-> << >>],
   [given |-> TRUE, readable |-> TRUE, pages |-> <<<<"a">>, <<"b">>>>]}

RegexFields ==
  {[given |-> FALSE, pattern |-> NoPattern],
   [given |-> TRUE, pattern |-> [kind |-> "empty", delimiter |-> << >>]],
   [given |-> TRUE, pattern |-> [kind |-> "invalid", delimiter |-> << >>]],
   [given |-> TRUE, pattern |-> DerivedPattern(ReEscape("+"))],
   [given |-> TRUE, pattern |-> DerivedPattern(ReEscape("."))]}

DecoratorFields ==
  {[given |-> FALSE, text |-> << >>], [given |-> TRUE, text |-> << >>],
   [given |-> TRUE, text |-> <<"+">>]}

ProcessRequests ==
  [task_name : TaskNames, file : Uploads, regex : RegexFields,
   decorator : DecoratorFields, pdf_file : PdfUploads, docx_file : Uploads,
   page_range : {NoRange, [given |-> TRUE, text |-> <<"1", "-", "1">>]}]

InitProcess ==
  /\ pc = "idle"
  /\ request \in ProcessRequests
  /\ response = Json(0, "")
  /\ previous = << >>
  /\ page_range_iterator = << >>
  /\ scanned = 0
  /\ results = << >>

\* one request to /api/process/<task_name>, from its arrival to its answer
ProcessTask ==
  /\ pc = "idle"
  /\ pc' = "done"
  /\ response' = process_task(request.task_name, request)
  /\ UNCHANGED <<request, previous, page_range_iterator, scanned, results>>

NextProcess == ProcessTask

SpecProcess == InitProcess /\ [][NextProcess]_vars

KnownTask == request.task_name \in {"tab1", "tab2", "tab3", "tab4", "tab5"}

\* a required file or field is missing: the fields the endpoint requires
\* are the upload and the pattern of tab1, the upload of tab2, tab3 and tab5,
\* and the two uploads of tab4
RequiredFieldMissing ==
  \/ request.task_name = "tab1"
       /\ (~request.file.given \/ NotRegex(request.regex))
  \/ request.task_name \in {"tab2", "tab3", "tab5"} /\ ~request.file.given
  \/ request.task_name = "tab4"
       /\ (~request.pdf_file.given \/ ~request.docx_file.given)

\* what the task's handler does with the request's uploads
HandlerResult ==
  CASE request.task_name = "tab1" ->
         handle_tab1(request.file, request.regex.pattern, request.decorator)
    [] request.task_name = "tab2" -> handle_tab2(request.file)
    [] request.task_name = "tab3" -> handle_tab3(request.file)
    [] request.task_name = "tab4" ->
         handle_tab4(request.pdf_file, request.docx_file, request.page_range)
    [] request.task_name = "tab5" -> handle_tab5(request.file)

Descriptive(message) == message # "" /\ message # GenericMessage

===========================================================================
